---- MODULE Spec2Model ----
(***************************************************************************)
(* A model of update-ansible-config.py: validate the environment, fetch a  *)
(* secret from the key vault (SDK first, CLI as fallback), substitute it   *)
(* for the placeholder in ansible.cfg behind a timestamped backup, and     *)
(* verify the result.  Text is a sequence of one-character strings; the    *)
(* line feed and the carriage return are written "LF" and "CR".            *)
(***************************************************************************)
EXTENDS Integers, Sequences, FiniteSets, TLC

\* Number of invocations of the script in a behaviour.
MaxRuns == 2
\* Number of invocations that can be running at the same time.
MaxProcs == 2
\* Last value of the wall clock, in seconds (the backup suffix granularity).
MaxClock == 1

Procs == 1..MaxProcs
Seconds == 0..MaxClock

(***************************************************************************)
(* Text helpers                                                            *)
(***************************************************************************)
LF == <<"LF">>
CR == <<"CR">>

\* A file that is not on disk, and Python's None.
NoFile == <<"ENOENT">>
NoneValue == <<"None">>

Token_Placeholder == <<"H", "u", "b", "_", "T", "o", "k", "e", "n">>

\* The text that the pattern ^token= of verify_update looks for.
TokenAssign == <<"t", "o", "k", "e", "n", "=">>

\* s[i .. i+Len(pat)-1] = pat
MatchesAt(s, pat, i) ==
    /\ i >= 1
    /\ i + Len(pat) - 1 <= Len(s)
    /\ \A k \in 1..Len(pat) : s[i + k - 1] = pat[k]

\* Python: pat in s  (pat is never empty here)
Contains(s, pat) == \E i \in 1..Len(s) : MatchesAt(s, pat, i)

\* Python: s.replace(old, new), scanning left to right over non-overlapping
\* occurrences of old.
RECURSIVE ReplaceFrom(_, _, _, _)
ReplaceFrom(s, old, new, i) ==
    IF i > Len(s) THEN <<>>
    ELSE IF MatchesAt(s, old, i)
         THEN new \o ReplaceFrom(s, old, new, i + Len(old))
         ELSE <<s[i]>> \o ReplaceFrom(s, old, new, i + 1)

StrReplace(s, old, new) == ReplaceFrom(s, old, new, 1)

\* Text-mode decoding with newline=None: "\r\n" and a lone "\r" are read as "\n".
RECURSIVE NewlinesFrom(_, _)
NewlinesFrom(s, i) ==
    IF i > Len(s) THEN <<>>
    ELSE IF s[i] = "CR"
         THEN IF i < Len(s) /\ s[i + 1] = "LF"
              THEN LF \o NewlinesFrom(s, i + 2)
              ELSE LF \o NewlinesFrom(s, i + 1)
         ELSE <<s[i]>> \o NewlinesFrom(s, i + 1)

UniversalNewlines(s) == NewlinesFrom(s, 1)

\* Text-mode encoding with newline=None: "\n" is written as os.linesep,
\* which is "\n" on the POSIX host of Config_File_Path.
os_linesep == LF

RECURSIVE TextWriteFrom(_, _)
TextWriteFrom(s, i) ==
    IF i > Len(s) THEN <<>>
    ELSE (IF s[i] = "LF" THEN os_linesep ELSE <<s[i]>>) \o TextWriteFrom(s, i + 1)

TextWrite(s) == TextWriteFrom(s, 1)

IsSpace(c) == c \in {" ", "LF", "CR", "TAB"}

\* Python: s.strip()
Strip(s) ==
    LET keep == {i \in 1..Len(s) : ~IsSpace(s[i])}
    IN  IF keep = {} THEN <<>>
        ELSE LET lo == CHOOSE i \in keep : \A j \in keep : i <= j
                 hi == CHOOSE i \in keep : \A j \in keep : j <= i
             IN  SubSeq(s, lo, hi)

\* Faulty variant: the pattern is compiled without re.MULTILINE.
TokenLineStartsFirstLine(s) == {i \in 1..Len(s) : MatchesAt(s, TokenAssign, i) /\ i = 1}

\* len(re.findall(r'^token=', s, re.MULTILINE))
TokenLineStarts(s) ==
    {i \in 1..Len(s) : MatchesAt(s, TokenAssign, i) /\ (i = 1 \/ s[i - 1] = "LF")}

Token_Count(s) == Cardinality(TokenLineStarts(s))

\* What an interrupted or failed write can leave of data in a file that was
\* opened for writing (and so truncated): nothing, or a leading part.
PartialWrites(data) == {SubSeq(data, 1, n) : n \in {0, Len(data) \div 2}}

(***************************************************************************)
(* Inputs: the files, secrets and outcomes of external calls that a run    *)
(* can meet.                                                               *)
(***************************************************************************)
HubPrefix == <<"H", "u", "b", "_">>

\* Contents of ansible.cfg at the first invocation.
ConfigFiles ==
    { TokenAssign \o Token_Placeholder \o LF,
      TokenAssign \o Token_Placeholder \o CR \o LF,
      TokenAssign \o Token_Placeholder \o LF \o TokenAssign \o Token_Placeholder,
      TokenAssign \o HubPrefix \o Token_Placeholder \o LF,
      <<"x">> \o TokenAssign \o Token_Placeholder \o LF,
      TokenAssign \o <<"x">> \o LF,
      Token_Placeholder,
      <<>> }

\* Secret.value as the SDK client can return it (Optional[str]).
SdkValues ==
    { NoneValue,
      <<>>,
      <<"a", "b">>,
      <<"T", "o", "k", "e", "n">>,
      <<"a">> \o Token_Placeholder,
      <<"a", "CR", "LF">> }

\* Bytes that `az keyvault secret show --query value --output tsv` can print
\* when it exits with status 0.
CliStdouts ==
    { <<>>,
      LF,
      <<"a", "b", "LF">>,
      <<"T", "o", "k", "e", "n", "CR", "LF">>,
      <<"a">> \o Token_Placeholder \o LF }

\* Outcomes of subprocess.run([...], check=True, timeout=...).
SubprocessOutcomes ==
    {"ok", "CalledProcessError", "FileNotFoundError", "TimeoutExpired", "KeyboardInterrupt"}

\* Outcomes of Path.exists() and the statements around it.
ExistsOutcomes == {"ok", "KeyboardInterrupt"}

\* Faulty variant: Client.get_secret, which is called without a timeout, never returns.
SdkOutcomesNever == {}

\* Outcomes of Client.get_secret: a value, or an exception.
SdkOutcomes ==
    {[exc |-> "none", value |-> v] : v \in SdkValues}
        \cup {[exc |-> e, value |-> NoneValue] : e \in {"AzureError", "KeyboardInterrupt"}}

CliOutcomes ==
    {[exc |-> "none", stdout |-> o] : o \in CliStdouts}
        \cup {[exc |-> e, stdout |-> <<>>] : e \in SubprocessOutcomes \ {"ok"}}

\* Outcomes of shutil.copy2 and of open(..., 'w') + write.
FileOutcomes == {"ok", "OSError", "KeyboardInterrupt"}

\* Outcomes of open(..., 'r', encoding='utf-8') + read.
ReadOutcomes == FileOutcomes \cup {"UnicodeDecodeError"}

(***************************************************************************)
(* State                                                                   *)
(***************************************************************************)
VARIABLES
    target,               \* content of Config_File_Path, or NoFile
    backups,              \* second -> content of <target>.backup.<second>, or NoFile
    clock,                \* datetime.now(), in seconds
    exclusive,            \* TRUE: an invocation starts only when no other is running
    launched,             \* number of invocations started so far
    pc,                   \* position of each invocation
    AZURE_SDK_AVAILABLE,  \* the module-level flag of each invocation
    Hub_Token,            \* value returned by fetch_keyvault_secret
    Timestamp,            \* suffix of Backup_File
    Config_Content,       \* text read by update_ansible_config / verify_update
    Updated_Content,      \* text handed to file.write
    exitCode,             \* {} while running, {status} once the process has ended
    console,              \* status lines printed so far
    io,                   \* outcome met by each external call ("none": not made)
    calls,                \* number of retrieval attempts per path, and of restores
    preRun,               \* target and backups when the invocation started
    previous              \* how the invocation before this one ended ("Absent": none)

fsVars == <<target, backups, clock, exclusive, launched>>
runVars == <<pc, AZURE_SDK_AVAILABLE, Hub_Token, Timestamp, Config_Content,
             Updated_Content, exitCode, console>>
histVars == <<io, calls, preRun, previous>>
vars == <<fsVars, runVars, histVars>>

IoNone ==
    [az_version |-> "none", account_show |-> "none", config_exists |-> "none",
     sdk |-> "none", cli |-> "none", backup |-> "none", read |-> "none",
     write |-> "none", restore |-> "none", verify_read |-> "none"]

NoBackups == [s \in Seconds |-> NoFile]
PreRunNone == [target |-> NoFile, backups |-> NoBackups]
CallsNone == [sdk |-> 0, cli |-> 0, restore |-> 0]

\* No invocation is running: every slot is "Absent".
NoRun ==
    /\ pc = [p \in Procs |-> "Absent"]
    /\ AZURE_SDK_AVAILABLE = [p \in Procs |-> FALSE]
    /\ Hub_Token = [p \in Procs |-> NoneValue]
    /\ Timestamp = [p \in Procs |-> 0]
    /\ Config_Content = [p \in Procs |-> <<>>]
    /\ Updated_Content = [p \in Procs |-> <<>>]
    /\ exitCode = [p \in Procs |-> {}]
    /\ console = [p \in Procs |-> {}]
    /\ io = [p \in Procs |-> IoNone]
    /\ calls = [p \in Procs |-> CallsNone]
    /\ preRun = [p \in Procs |-> PreRunNone]
    /\ previous = [p \in Procs |-> "Absent"]

InitRun ==
    /\ NoRun
    /\ launched = 0

InitFiles ==
    /\ target \in ConfigFiles \cup {NoFile}
    /\ backups = NoBackups
    /\ clock = 0

Init ==
    /\ InitFiles
    /\ InitRun
    /\ exclusive = TRUE

Terminal == {"Done", "Failed"}
Free == Terminal \cup {"Absent"}

\* The operator runs the script: a new process takes the lowest free slot, with
\* nothing left of the process that ended there.
Launch(p) ==
    /\ launched < MaxRuns
    /\ pc[p] \in Free
    /\ \A q \in Procs : q < p => pc[q] \notin Free
    /\ exclusive => \A q \in Procs : pc[q] \in Free
    /\ launched' = launched + 1
    /\ pc' = [pc EXCEPT ![p] = "Start"]
    /\ AZURE_SDK_AVAILABLE' = [AZURE_SDK_AVAILABLE EXCEPT ![p] = FALSE]
    /\ Hub_Token' = [Hub_Token EXCEPT ![p] = NoneValue]
    /\ Timestamp' = [Timestamp EXCEPT ![p] = 0]
    /\ Config_Content' = [Config_Content EXCEPT ![p] = <<>>]
    /\ Updated_Content' = [Updated_Content EXCEPT ![p] = <<>>]
    /\ exitCode' = [exitCode EXCEPT ![p] = {}]
    /\ console' = [console EXCEPT ![p] = {}]
    /\ io' = [io EXCEPT ![p] = IoNone]
    /\ calls' = [calls EXCEPT ![p] = CallsNone]
    /\ preRun' = [preRun EXCEPT ![p] = PreRunNone]
    /\ previous' = [previous EXCEPT ![p] = pc[p]]
    /\ UNCHANGED <<target, backups, clock, exclusive>>

(***************************************************************************)
(* main: the exception boundary                                            *)
(***************************************************************************)
\* Faulty variant: a cancelled run ends with the shell's status for SIGINT.
main_exit_status_sigint(raised) == IF raised = "KeyboardInterrupt" THEN 130 ELSE 1

\* Exit status of the process when `raised` leaves the try block of main:
\* SystemExit carries the 1 of sys.exit(1); both handlers call sys.exit(1).
main_exit_status(raised) ==
    CASE raised = "SystemExit" -> 1
      [] raised = "KeyboardInterrupt" -> 1
      [] OTHER -> 1

\* What main prints for it.
main_handler_lines(raised) ==
    CASE raised = "none" -> {}
      [] raised = "SystemExit" -> {}
      [] raised = "KeyboardInterrupt" -> {"cancelled"}
      [] OTHER -> {"unexpected_error"}

\* A step of invocation p that printed `lines` and either fell through to
\* position `next` or raised `raised` out of its function.
Advance(p, next, raised, lines) ==
    /\ pc' = [pc EXCEPT ![p] = IF raised = "none" THEN next ELSE "Failed"]
    /\ exitCode' = [exitCode EXCEPT ![p] =
                       IF raised = "none"
                       THEN (IF next = "Done" THEN {0} ELSE {})
                       ELSE {main_exit_status(raised)}]
    /\ console' = [console EXCEPT ![p] = @ \cup lines \cup main_handler_lines(raised)]

\* Module load and the first lines of main.
Start(p) ==
    /\ pc[p] = "Start"
    /\ \E sdk \in BOOLEAN :
           AZURE_SDK_AVAILABLE' = [AZURE_SDK_AVAILABLE EXCEPT ![p] = sdk]
    /\ preRun' = [preRun EXCEPT ![p] = [target |-> target, backups |-> backups]]
    /\ Advance(p, "Validating", "none", {"starting"})
    /\ UNCHANGED <<fsVars, Hub_Token, Timestamp, Config_Content, Updated_Content, io, calls,
                   previous>>

(***************************************************************************)
(* validate_prerequisites                                                  *)
(***************************************************************************)
AzVersionExcept == {"CalledProcessError", "FileNotFoundError", "TimeoutExpired"}
AccountShowExcept == {"CalledProcessError", "TimeoutExpired"}

\* Faulty variant: the login check is never made.
NeedsAccountShowNever(sdk) == FALSE

\* `if not AZURE_SDK_AVAILABLE`: the login check is made for the CLI path only.
NeedsAccountShow(sdk) == ~sdk

\* Faulty variant: the existence check is missing.
ConfigExistsUnchecked(cfg) == TRUE

\* Config_File.exists()
ConfigExists(cfg) == cfg # NoFile

\* The function run against the outcomes ver (az --version), auth (az account
\* show) and ex (the existence check) with the target file cfg.
ValidateResult(sdk, ver, auth, ex, cfg) ==
    IF ver # "ok"
    THEN [raised |-> IF ver \in AzVersionExcept THEN "SystemExit" ELSE ver,
          lines |-> {"validating"}
                      \cup (IF ver \in AzVersionExcept THEN {"az_not_installed"} ELSE {}),
          az_version |-> ver, account_show |-> "none", config_exists |-> "none"]
    ELSE IF NeedsAccountShow(sdk) /\ auth # "ok"
    THEN [raised |-> IF auth \in AccountShowExcept THEN "SystemExit" ELSE auth,
          lines |-> {"validating"}
                      \cup (IF auth \in AccountShowExcept THEN {"not_logged_in"} ELSE {}),
          az_version |-> ver, account_show |-> auth, config_exists |-> "none"]
    ELSE LET shown == IF NeedsAccountShow(sdk) THEN auth ELSE "none"
         IN  IF ex # "ok"
             THEN [raised |-> ex, lines |-> {"validating"},
                   az_version |-> ver, account_show |-> shown, config_exists |-> ex]
             ELSE IF ~ConfigExists(cfg)
             THEN [raised |-> "SystemExit", lines |-> {"validating", "config_not_found"},
                   az_version |-> ver, account_show |-> shown, config_exists |-> "False"]
             ELSE [raised |-> "none", lines |-> {"validating", "prerequisites_ok"},
                   az_version |-> ver, account_show |-> shown, config_exists |-> "True"]

validate_prerequisites(p) ==
    /\ pc[p] = "Validating"
    /\ \E ver \in SubprocessOutcomes, auth \in SubprocessOutcomes, ex \in ExistsOutcomes :
           LET r == ValidateResult(AZURE_SDK_AVAILABLE[p], ver, auth, ex, target)
           IN  /\ io' = [io EXCEPT ![p].az_version = r.az_version,
                                   ![p].account_show = r.account_show,
                                   ![p].config_exists = r.config_exists]
               /\ Advance(p, "Fetching", r.raised, r.lines)
    /\ UNCHANGED <<fsVars, AZURE_SDK_AVAILABLE, Hub_Token, Timestamp, Config_Content,
                   Updated_Content, calls, preRun, previous>>

(***************************************************************************)
(* fetch_keyvault_secret and its two retrieval paths                       *)
(***************************************************************************)
\* Lines printed by either path when it gives up.
DiagnosticLines == {"vault_url", "secret_name", "secret_version"}

\* `except Exception` of fetch_keyvault_secret_sdk.
SdkExcept(exc) == exc \notin {"KeyboardInterrupt", "SystemExit"}

\* Faulty variant: the SystemExit of the SDK path is swallowed and the CLI is not tried.
AfterSdkExitSkipsCli == "Patching"

\* Position after fetch_keyvault_secret_sdk ended in sys.exit(1): the caller's
\* `except SystemExit` turns to the CLI.
AfterSdkExit == "f_cli"

\* The except clause of fetch_keyvault_secret_cli.
CliExcept == {"CalledProcessError", "TimeoutExpired", "ValueError"}

\* Hub_Token computed from the captured standard output (text=True).
CliToken(stdout) == Strip(UniversalNewlines(stdout))

\* What the try block of fetch_keyvault_secret_cli raises for outcome r.
CliRaised(r) ==
    IF r.exc # "none" THEN r.exc
    ELSE IF CliToken(r.stdout) = <<>> THEN "ValueError"
    ELSE "none"

\* First lines of fetch_keyvault_secret: the choice of the path.
fetch_keyvault_secret(p) ==
    /\ pc[p] = "Fetching"
    /\ IF AZURE_SDK_AVAILABLE[p]
       THEN Advance(p, "f_sdk", "none", {"fetching"})
       ELSE Advance(p, "f_cli", "none", {"fetching", "sdk_not_available"})
    /\ UNCHANGED <<fsVars, AZURE_SDK_AVAILABLE, Hub_Token, Timestamp, Config_Content,
                   Updated_Content, histVars>>

fetch_keyvault_secret_sdk(p) ==
    /\ pc[p] = "f_sdk"
    /\ \E r \in SdkOutcomes :
           /\ io' = [io EXCEPT ![p].sdk = IF r.exc = "none" THEN "ok" ELSE r.exc]
           /\ IF r.exc = "none"
              THEN /\ Hub_Token' = [Hub_Token EXCEPT ![p] = r.value]
                   /\ Advance(p, "Patching", "none", {"retrieved"})
              ELSE /\ UNCHANGED Hub_Token
                   /\ IF SdkExcept(r.exc)
                      THEN Advance(p, AfterSdkExit, "none",
                                   {"sdk_failed", "sdk_fallback"} \cup DiagnosticLines)
                      ELSE Advance(p, "Patching", r.exc, {})
    /\ calls' = [calls EXCEPT ![p].sdk = @ + 1]
    /\ UNCHANGED <<fsVars, AZURE_SDK_AVAILABLE, Timestamp, Config_Content,
                   Updated_Content, preRun, previous>>

fetch_keyvault_secret_cli(p) ==
    /\ pc[p] = "f_cli"
    /\ \E r \in CliOutcomes :
           LET raised == CliRaised(r)
           IN  /\ io' = [io EXCEPT ![p].cli = IF raised = "none" THEN "ok" ELSE raised]
               /\ IF raised = "none"
                  THEN /\ Hub_Token' = [Hub_Token EXCEPT ![p] = CliToken(r.stdout)]
                       /\ Advance(p, "Patching", "none", {"retrieved"})
                  ELSE /\ UNCHANGED Hub_Token
                       /\ IF raised \in CliExcept
                          THEN Advance(p, "Patching", "SystemExit",
                                       {"cli_failed"} \cup DiagnosticLines)
                          ELSE Advance(p, "Patching", raised, {})
    /\ calls' = [calls EXCEPT ![p].cli = @ + 1]
    /\ UNCHANGED <<fsVars, AZURE_SDK_AVAILABLE, Timestamp, Config_Content,
                   Updated_Content, preRun, previous>>

(***************************************************************************)
(* update_ansible_config: backup, read, write, restore                     *)
(***************************************************************************)
\* Outcomes that a copy of src, or a read of it, can have.
CopyOutcomes(src) == IF src = NoFile THEN FileOutcomes \ {"ok"} ELSE FileOutcomes
ReadOutcomesOf(src) == IF src = NoFile THEN ReadOutcomes \ {"ok"} ELSE ReadOutcomes

\* What shutil.copy2(src, dst) that did not complete can leave at dst.
CopyLeftovers(src, dst) == IF src = NoFile THEN {dst} ELSE {dst} \cup PartialWrites(src)

\* What open(dst, 'w') + write(text) that did not complete can leave at dst.
WriteLeftovers(text, dst) == {dst} \cup PartialWrites(TextWrite(text))

\* Faulty variant: the backup is taken of a file that was already opened for writing.
BackupCopyTruncated(cfg) == <<>>

\* Content of Backup_File after shutil.copy2(Config_File, Backup_File).
BackupCopy(cfg) == cfg

\* Faulty variant: the restore opens the target for writing and copies nothing.
RestoreCopyNothing(backup) == <<>>

\* Content of Config_File after shutil.copy2(Backup_File, Config_File).
RestoreCopy(backup) == backup

\* Faulty variant: a bare `except:` around the write.
WriteExceptBare == {"OSError", "KeyboardInterrupt"}

\* Faulty variant: the except branch of the backup copy does not leave the function.
AfterBackupFailureGoesOn == "none"

\* The sys.exit(1) that ends the except branch of the backup copy.
AfterBackupFailure == "SystemExit"

\* `except (OSError, IOError)` around the write.
WriteExcept == {"OSError"}

\* Faulty variant: the except branch of the write falls through after the restore.
AfterRestoreFallsThrough == "none"

\* The sys.exit(1) that ends the except branch of the write, restored or not.
AfterRestore == "SystemExit"

\* Faulty variant: the target is opened with mode 'a'.
WrittenFileAppended(old, text) == old \o TextWrite(text)

\* Content of Config_File after open(Config_File, 'w') + write(text).
WrittenFile(old, text) == TextWrite(text)

\* re.escape: a backslash before each character that is special in a pattern.
re_special == {"LF", "CR", "TAB", " ", ".", "-", "+", "*", "?", "$", "^", "|", "#", "&", "~"}

RECURSIVE EscapeFrom(_, _)
EscapeFrom(s, i) ==
    IF i > Len(s) THEN <<>>
    ELSE (IF s[i] \in re_special THEN <<"BACKSLASH", s[i]>> ELSE <<s[i]>>)
             \o EscapeFrom(s, i + 1)

re_escape(s) == EscapeFrom(s, 1)

\* Faulty variant: the placeholder is replaced by Escaped_Token instead of Hub_Token.
SubstituteEscaped(content, token) == StrReplace(content, Token_Placeholder, re_escape(token))

\* Updated_Content of update_ansible_config.
Substitute(content, token) == StrReplace(content, Token_Placeholder, token)

\* datetime.now() at the backup step: still the second of the latest backup
\* file, or a later one.  Seconds in which no backup file was written are not
\* counted, so the clock moves on only from a second that has its file.
Now ==
    {clock} \cup (IF clock < MaxClock /\ backups[clock] # NoFile THEN {clock + 1} ELSE {})

update_backup(p) ==
    /\ pc[p] = "Patching"
    /\ \E ts \in Now, oc \in CopyOutcomes(target) :
           /\ clock' = ts
           /\ Timestamp' = [Timestamp EXCEPT ![p] = ts]
           /\ io' = [io EXCEPT ![p].backup = oc]
           /\ IF oc = "ok"
              THEN /\ backups' = [backups EXCEPT ![ts] = BackupCopy(target)]
                   /\ Advance(p, "p_read", "none", {"updating", "backup_created"})
              ELSE /\ \E left \in CopyLeftovers(target, backups[ts]) :
                          backups' = [backups EXCEPT ![ts] = left]
                   /\ IF oc = "OSError"
                      THEN Advance(p, "p_read", AfterBackupFailure,
                                   {"updating", "backup_failed"})
                      ELSE Advance(p, "p_read", oc, {"updating"})
    /\ UNCHANGED <<target, exclusive, launched, AZURE_SDK_AVAILABLE, Hub_Token,
                   Config_Content, Updated_Content, calls, preRun, previous>>

update_read(p) ==
    /\ pc[p] = "p_read"
    /\ \E oc \in ReadOutcomesOf(target) :
           /\ io' = [io EXCEPT ![p].read = oc]
           /\ IF oc = "ok"
              THEN /\ Config_Content' = [Config_Content EXCEPT ![p] = UniversalNewlines(target)]
                   /\ IF Hub_Token[p] = NoneValue
                      THEN Advance(p, "p_write", "TypeError", {})
                      ELSE Advance(p, "p_write", "none", {"starting_update"})
              ELSE /\ UNCHANGED Config_Content
                   /\ IF oc = "OSError"
                      THEN Advance(p, "p_write", "SystemExit", {"read_failed"})
                      ELSE Advance(p, "p_write", oc, {})
    /\ UNCHANGED <<fsVars, AZURE_SDK_AVAILABLE, Hub_Token, Timestamp, Updated_Content,
                   calls, preRun, previous>>

update_write(p) ==
    /\ pc[p] = "p_write"
    /\ LET updated == Substitute(Config_Content[p], Hub_Token[p])
       IN  /\ Updated_Content' = [Updated_Content EXCEPT ![p] = updated]
           /\ \E oc \in FileOutcomes :
                  /\ io' = [io EXCEPT ![p].write = oc]
                  /\ IF oc = "ok"
                     THEN /\ target' = WrittenFile(target, updated)
                          /\ Advance(p, "Verifying", "none", {"updated"})
                     ELSE /\ target' \in WriteLeftovers(updated, target)
                          /\ IF oc \in WriteExcept
                             THEN Advance(p, "p_restore", "none", {"update_failed"})
                             ELSE Advance(p, "Verifying", oc, {})
    /\ UNCHANGED <<backups, clock, exclusive, launched, AZURE_SDK_AVAILABLE, Hub_Token,
                   Timestamp, Config_Content, calls, preRun, previous>>

update_restore(p) ==
    /\ pc[p] = "p_restore"
    /\ LET backup == backups[Timestamp[p]]
       IN  \E oc \in CopyOutcomes(backup) :
               /\ io' = [io EXCEPT ![p].restore = oc]
               /\ IF oc = "ok"
                  THEN /\ target' = RestoreCopy(backup)
                       /\ Advance(p, "Verifying", AfterRestore, {"restored"})
                  ELSE /\ target' \in CopyLeftovers(backup, target)
                       /\ IF oc = "OSError"
                          THEN Advance(p, "Verifying", AfterRestore, {"restore_failed"})
                          ELSE Advance(p, "Verifying", oc, {})
    /\ calls' = [calls EXCEPT ![p].restore = @ + 1]
    /\ UNCHANGED <<backups, clock, exclusive, launched, AZURE_SDK_AVAILABLE, Hub_Token,
                   Timestamp, Config_Content, Updated_Content, preRun, previous>>

(***************************************************************************)
(* verify_update                                                           *)
(***************************************************************************)
\* Faulty variant: the check for the placeholder is missing.
VerifyVerdictCountOnly(content) ==
    IF Token_Count(content) = 0 THEN "no_tokens" ELSE "verified"

\* The two checks on the text that was read back.
VerifyVerdict(content) ==
    IF Contains(content, Token_Placeholder) THEN "placeholder_found"
    ELSE IF Token_Count(content) = 0 THEN "no_tokens"
    ELSE "verified"

verify_update(p) ==
    /\ pc[p] = "Verifying"
    /\ \E oc \in ReadOutcomesOf(target) :
           /\ io' = [io EXCEPT ![p].verify_read = oc]
           /\ IF oc = "ok"
              THEN LET content == UniversalNewlines(target)
                       verdict == VerifyVerdict(content)
                   IN  /\ Config_Content' = [Config_Content EXCEPT ![p] = content]
                       /\ IF verdict = "verified"
                          THEN Advance(p, "Done", "none",
                                       {"verifying", "verified", "token_count", "all_updated"})
                          ELSE Advance(p, "Done", "SystemExit", {"verifying", verdict})
              ELSE /\ UNCHANGED Config_Content
                   /\ IF oc = "OSError"
                      THEN Advance(p, "Done", "SystemExit", {"verifying", "verify_read_failed"})
                      ELSE Advance(p, "Done", oc, {"verifying"})
    /\ UNCHANGED <<fsVars, AZURE_SDK_AVAILABLE, Hub_Token, Timestamp, Updated_Content,
                   calls, preRun, previous>>

(***************************************************************************)
(* The text of the status lines.  A line is the sequence of its symbols:   *)
(* the fixed part of the message is one symbol (the name of the line), a   *)
(* module constant or a piece of an exception's text is one symbol, and a  *)
(* value that comes from the vault or from the file is spelt out character *)
(* by character.                                                           *)
(***************************************************************************)
Config_File_Path == "/workspaces/ansible-dev-tools/scripts/ansible.cfg"
Keyvault_Name == "kv-weu-wintel-prod"
Secret_Name == "APIkey-Private-AAP-HUB"
Secret_Version == "6024959f4bec42c4a2500bc31317116d"

Digits == <<"0", "1", "2", "3", "4", "5", "6", "7", "8", "9">>

\* str(n) of a natural number, as an f-string and strftime print it.
RECURSIVE IntText(_)
IntText(n) ==
    IF n < 10 THEN <<Digits[n + 1]>>
    ELSE IntText(n \div 10) \o <<Digits[(n % 10) + 1]>>

\* str(e): CalledProcessError and TimeoutExpired name the command line (never
\* the captured output), ValueError carries the message it was raised with,
\* and the others name their kind, errno and path.
ExceptionText(exc) ==
    CASE exc \in {"CalledProcessError", "TimeoutExpired"} ->
             <<"Command", Keyvault_Name, Secret_Name, Secret_Version>>
      [] exc = "ValueError" -> <<"Empty token received from Azure CLI">>
      [] OTHER -> <<exc>>

\* The exception that reached `except Exception` of main: the one of the last
\* call that failed, or the TypeError of re.escape(None).
UnexpectedError(p) ==
    LET order == <<"verify_read", "restore", "write", "read", "backup", "cli", "sdk",
                   "config_exists", "account_show", "az_version">>
        failed == {i \in 1..Len(order) : io[p][order[i]] \notin {"none", "ok", "True", "False"}}
    IN  IF failed = {} \/ (io[p].read = "ok" /\ io[p].write = "none")
        THEN "TypeError"
        ELSE io[p][order[CHOOSE i \in failed : \A j \in failed : i <= j]]

\* Faulty variant: the success line of the fetch shows the value that was fetched.
LineArgsEchoToken(p, tag) == IF tag = "retrieved" THEN Hub_Token[p] ELSE <<>>

\* The lines that are f-strings with a value in them.
FormattedLines ==
    {"config_not_found", "sdk_failed", "cli_failed", "vault_url", "secret_name",
     "secret_version", "backup_created", "backup_failed", "read_failed", "update_failed",
     "restore_failed", "verify_read_failed", "token_count", "all_updated", "unexpected_error"}

\* The values that the f-string of a line interpolates.
LineArgs(p, tag) ==
    CASE tag \notin FormattedLines -> <<>>
      [] tag = "config_not_found" -> <<Config_File_Path>>
      [] tag = "sdk_failed" -> ExceptionText(io[p].sdk)
      [] tag = "cli_failed" -> ExceptionText(io[p].cli)
      [] tag = "vault_url" -> <<Keyvault_Name>>
      [] tag = "secret_name" -> <<Secret_Name>>
      [] tag = "secret_version" -> <<Secret_Version>>
      [] tag = "backup_created" -> <<Config_File_Path, ".backup.">> \o IntText(Timestamp[p])
      [] tag = "backup_failed" -> ExceptionText(io[p].backup)
      [] tag = "read_failed" -> ExceptionText(io[p].read)
      [] tag = "update_failed" -> ExceptionText(io[p].write)
      [] tag = "restore_failed" -> ExceptionText(io[p].restore)
      [] tag = "verify_read_failed" -> ExceptionText(io[p].verify_read)
      [] tag = "token_count" -> IntText(Token_Count(Config_Content[p]))
      [] tag = "all_updated" -> <<Config_File_Path>>
      [] tag = "unexpected_error" -> ExceptionText(UnexpectedError(p))

\* The line as print_status writes it.
LineText(p, tag) == <<tag>> \o LineArgs(p, tag)

(***************************************************************************)
(* Specification: invocations one after the other                          *)
(***************************************************************************)
Next ==
    \E p \in Procs :
        \/ Launch(p)
        \/ Start(p)
        \/ validate_prerequisites(p)
        \/ fetch_keyvault_secret(p)
        \/ fetch_keyvault_secret_sdk(p)
        \/ fetch_keyvault_secret_cli(p)
        \/ update_backup(p)
        \/ update_read(p)
        \/ update_write(p)
        \/ update_restore(p)
        \/ verify_update(p)

Spec == Init /\ [][Next]_vars

\* The steps of one invocation, from its first line to its exit.
main(p) ==
    \/ Start(p)
    \/ validate_prerequisites(p)
    \/ fetch_keyvault_secret(p)
    \/ fetch_keyvault_secret_sdk(p)
    \/ fetch_keyvault_secret_cli(p)
    \/ update_backup(p)
    \/ update_read(p)
    \/ update_write(p)
    \/ update_restore(p)
    \/ verify_update(p)

\* A process that can take a step takes it: the program is synchronous, each
\* step is straight-line code around one blocking call, and each subprocess
\* call is given a timeout.  For the SDK call, which has none, this is the
\* assumption that it returns or raises.
Fairness == \A p \in Procs : WF_vars(main(p))

\* The last invocation of a behaviour, the ones before it having left the
\* files as they were.
InitLastRun ==
    /\ InitFiles
    /\ NoRun
    /\ launched = MaxRuns - 1
    /\ exclusive = TRUE

SpecFair == InitLastRun /\ [][Next]_vars /\ Fairness

(***************************************************************************)
(* Specification: two invocations at the same time.  Nothing in the script *)
(* waits for another process, so two invocations against the same file     *)
(* interleave freely.  Validation and retrieval do not write a file; the   *)
(* behaviours start where both invocations have been through them and are  *)
(* about to make their backup copy.                                        *)
(***************************************************************************)
Racers == {1, 2}

\* What an invocation has printed and recorded when update_ansible_config is
\* called, the SDK having returned the secret.
FetchedConsole == {"starting", "validating", "prerequisites_ok", "fetching", "retrieved"}
FetchedIo == [IoNone EXCEPT !.az_version = "ok", !.config_exists = "True", !.sdk = "ok"]
FetchedCalls == [CallsNone EXCEPT !.sdk = 1]

\* Both invocations were given the same value: Secret_Version is fixed.
InitConcurrent ==
    /\ target \in ConfigFiles
    /\ backups = NoBackups
    /\ clock = 0
    /\ exclusive = FALSE
    /\ launched = Cardinality(Racers)
    /\ pc = [p \in Procs |-> IF p \in Racers THEN "Patching" ELSE "Absent"]
    /\ AZURE_SDK_AVAILABLE = [p \in Procs |-> p \in Racers]
    /\ \E v \in SdkValues \ {NoneValue} :
           Hub_Token = [p \in Procs |-> IF p \in Racers THEN v ELSE NoneValue]
    /\ Timestamp = [p \in Procs |-> 0]
    /\ Config_Content = [p \in Procs |-> <<>>]
    /\ Updated_Content = [p \in Procs |-> <<>>]
    /\ exitCode = [p \in Procs |-> {}]
    /\ console = [p \in Procs |-> IF p \in Racers THEN FetchedConsole ELSE {}]
    /\ io = [p \in Procs |-> IF p \in Racers THEN FetchedIo ELSE IoNone]
    /\ calls = [p \in Procs |-> IF p \in Racers THEN FetchedCalls ELSE CallsNone]
    /\ preRun = [p \in Procs |->
                    IF p \in Racers THEN [target |-> target, backups |-> backups]
                    ELSE PreRunNone]
    /\ previous = [p \in Procs |-> "Absent"]

\* The steps of update_ansible_config and verify_update.
PatchAndVerify(p) ==
    \/ update_backup(p)
    \/ update_read(p)
    \/ update_write(p)
    \/ update_restore(p)
    \/ verify_update(p)

NextConcurrent == \E p \in Procs : PatchAndVerify(p)

SpecConcurrent == InitConcurrent /\ [][NextConcurrent]_vars

(***************************************************************************)
(* Properties                                                              *)
(***************************************************************************)
Ended(p) == pc[p] \in Terminal
WriteFailed(p) == io[p].write \notin {"none", "ok"}

\* C1 (as claimed): if the write step fails for any reason, then when the
\* process has ended the target holds its content from the start of the run
\* and the exit code is not 0.
C1_WriteFailureRestoresTarget ==
    \A p \in Procs :
        Ended(p) /\ WriteFailed(p) =>
            /\ target = preRun[p].target
            /\ exitCode[p] # {} /\ 0 \notin exitCode[p]

\* C1 (amended): whenever the write step fails the exit code is 1; the target
\* holds its content from the start of the run when the write failed with an
\* I/O error and the copy of the backup over the target succeeded.
C1_RestoredWhenRestoreSucceeds ==
    \A p \in Procs :
        Ended(p) /\ WriteFailed(p) =>
            /\ exitCode[p] = {1}
            /\ (io[p].write = "OSError" /\ io[p].restore = "ok" => target = preRun[p].target)

\* C1 witness: a write that failed after truncating the file, followed by a
\* restore that put the original content back.
C1_Witness ==
    \E p \in Procs :
        /\ pc[p] = "Failed"
        /\ io[p].write = "OSError"
        /\ io[p].restore = "ok"
        /\ preRun[p].target # <<>>
        /\ Updated_Content[p] # preRun[p].target
        /\ target = preRun[p].target

\* A step in which invocation p overwrites the target: the patch write or
\* the restore.
OverwriteStep(p) == pc[p] \in {"p_write", "p_restore"} /\ pc'[p] # pc[p]

\* C2: the target is overwritten only by a write or restore step of a run
\* whose backup copy succeeded, and at the patch write (the first write) the
\* backup holds exactly what the target holds just before it.
C2_BackupBeforeOverwrite ==
    [][ /\ target' # target => \E p \in Procs : OverwriteStep(p)
        /\ \A p \in Procs :
               OverwriteStep(p) =>
                   /\ io[p].backup = "ok"
                   /\ backups[Timestamp[p]] # NoFile
                   /\ pc[p] = "p_write" => backups[Timestamp[p]] = target ]_vars

\* C2 witness: the patch write has changed the target and the backup of this
\* run holds the content from before it.
C2_Witness ==
    \E p \in Procs :
        /\ io[p].write = "ok"
        /\ target # preRun[p].target
        /\ backups[Timestamp[p]] = preRun[p].target

\* C3 (as claimed): after a successful run the placeholder is nowhere in the
\* target, and the target is its content from before the run with every
\* occurrence of the placeholder replaced by the secret as fetched.
C3_SuccessMeansSubstituted ==
    \A p \in Procs :
        pc[p] = "Done" =>
            /\ ~Contains(target, Token_Placeholder)
            /\ target = StrReplace(preRun[p].target, Token_Placeholder, Hub_Token[p])

\* C3 (amended): after a successful run the placeholder is nowhere in the
\* target, and the target is the text of the file from before the run, as
\* read in text mode (line endings read as "\n"), with every occurrence of
\* the placeholder replaced by the secret as fetched.
C3_SuccessMeansTextSubstituted ==
    \A p \in Procs :
        pc[p] = "Done" =>
            /\ ~Contains(target, Token_Placeholder)
            /\ Hub_Token[p] # NoneValue
            /\ target = TextWrite(StrReplace(UniversalNewlines(preRun[p].target),
                                             Token_Placeholder, Hub_Token[p]))

\* C3 witness: a successful run of a file that held the placeholder.
C3_Witness ==
    \E p \in Procs :
        /\ pc[p] = "Done"
        /\ Contains(preRun[p].target, Token_Placeholder)
        /\ Hub_Token[p] # <<>>
        /\ target # preRun[p].target

\* The SDK retrieval ended in an exception other than an interruption.
SdkFailed(p) == io[p].sdk \notin {"none", "ok", "KeyboardInterrupt"}
CliFailed(p) == io[p].cli \notin {"none", "ok"}

\* C4: after a failed SDK retrieval the CLI retrieval is made before the run
\* can end; the CLI is tried only when the SDK is unavailable or has failed;
\* each path is tried at most once; and a CLI path that fails or returns an
\* empty value ends the run with a non-zero exit, the target and the backup
\* files as they were.
C4_FallbackThenFail ==
    \A p \in Procs :
        /\ calls[p].sdk <= 1 /\ calls[p].cli <= 1
        /\ calls[p].cli > 0 => ~AZURE_SDK_AVAILABLE[p] \/ SdkFailed(p)
        /\ io[p].sdk = "ok" => calls[p].cli = 0
        /\ AZURE_SDK_AVAILABLE[p] /\ SdkFailed(p) => pc[p] = "f_cli" \/ calls[p].cli = 1
        /\ CliFailed(p) =>
               /\ pc[p] = "Failed"
               /\ exitCode[p] = {1}
               /\ target = preRun[p].target
               /\ backups = preRun[p].backups

\* C4 witness: the SDK raised, the CLI printed nothing but white space, and
\* the run has ended.
C4_Witness ==
    \E p \in Procs :
        /\ AZURE_SDK_AVAILABLE[p]
        /\ io[p].sdk = "AzureError"
        /\ io[p].cli = "ValueError"
        /\ pc[p] = "Failed"

Phase(l) ==
    CASE l \in {"f_sdk", "f_cli"} -> "Fetching"
      [] l \in {"p_read", "p_write", "p_restore"} -> "Patching"
      [] OTHER -> l

RunningPhases == {"Start", "Validating", "Fetching", "Patching", "Verifying"}

PhaseSteps ==
    { <<"Start", "Validating">>, <<"Validating", "Fetching">>, <<"Fetching", "Patching">>,
      <<"Patching", "Verifying">>, <<"Verifying", "Done">> }
        \cup {<<x, "Failed">> : x \in RunningPhases}

\* The line that the previous component prints when it succeeds.
EntryLine(phase) ==
    CASE phase = "Fetching" -> {"prerequisites_ok"}
      [] phase = "Patching" -> {"retrieved"}
      [] phase = "Verifying" -> {"updated"}
      [] phase = "Done" -> {"verified"}
      [] OTHER -> {}

Rank(l) ==
    CASE l = "Start" -> 0 [] l = "Validating" -> 1 [] l = "Fetching" -> 2
      [] l = "f_sdk" -> 3 [] l = "f_cli" -> 4 [] l = "Patching" -> 5
      [] l = "p_read" -> 6 [] l = "p_write" -> 7 [] l = "p_restore" -> 8
      [] l = "Verifying" -> 9 [] OTHER -> 10

\* C5: within a run the phase moves only along Start -> Validating ->
\* Fetching -> Patching -> Verifying -> Done or from a running phase to
\* Failed, a phase is entered only when the component before it has reported
\* success, the position never goes back, and nothing changes a run that is
\* Done or Failed (its slot is only taken by a new invocation).
C5_PhaseMachine ==
    [][ \A p \in Procs :
            /\ pc[p] \in Terminal =>
                   \/ pc'[p] = pc[p] /\ exitCode'[p] = exitCode[p] /\ console'[p] = console[p]
                   \/ pc'[p] = "Start" /\ launched' = launched + 1
            /\ Phase(pc[p]) \in RunningPhases /\ pc'[p] # pc[p] =>
                   /\ Rank(pc'[p]) > Rank(pc[p])
                   /\ Phase(pc'[p]) # Phase(pc[p]) =>
                          /\ <<Phase(pc[p]), Phase(pc'[p])>> \in PhaseSteps
                          /\ EntryLine(Phase(pc'[p])) \subseteq console'[p] ]_vars

\* C5 witness: a run that went through every phase to Done, started after a
\* run that had Failed.
C5_Witness ==
    \E p \in Procs :
        /\ pc[p] = "Done"
        /\ previous[p] = "Failed"

SuccessLines == {"prerequisites_ok", "retrieved", "updated", "verified"}

C7_MissingTarget ==
    \A p \in Procs :
        pc[p] \notin {"Absent", "Start"} /\ preRun[p].target = NoFile =>
            /\ pc[p] \in {"Validating", "Failed"}
            /\ target = NoFile
            /\ backups = preRun[p].backups
            /\ io[p].backup = "none" /\ io[p].write = "none" /\ io[p].restore = "none"
            /\ Ended(p) => exitCode[p] = {1}

\* C7 witness: CLI present, SDK importable, target missing: the run has
\* ended at the existence check.
C7_Witness ==
    \E p \in Procs :
        /\ pc[p] = "Failed"
        /\ preRun[p].target = NoFile
        /\ AZURE_SDK_AVAILABLE[p]
        /\ io[p].config_exists = "False"

PastValidation(p) == pc[p] \notin {"Absent", "Start", "Validating"}
Validated(p) == "prerequisites_ok" \in console[p]

C9_SecretNonEmpty ==
    \A p \in Procs :
        Phase(pc[p]) = "Patching" =>
            /\ Hub_Token[p] # NoneValue
            /\ Hub_Token[p] # <<>>

\* Verification fails on the text it read only for the placeholder or for
\* want of a token= line.
VerifyFailsOnlyFor(p) ==
    pc[p] = "Failed" /\ io[p].verify_read = "ok" =>
        \/ Contains(Config_Content[p], Token_Placeholder)
        \/ Token_Count(Config_Content[p]) = 0

\* C10 (as claimed): in a run that follows a successful run, the text written
\* is the text read, the written target is the target from before the run,
\* and verification passes; verification fails only for the placeholder or
\* for want of a token= line.
C10_SecondRunNoOp ==
    \A p \in Procs :
        /\ previous[p] = "Done" =>
               /\ pc[p] \in {"p_restore", "Verifying"} => Updated_Content[p] = Config_Content[p]
               /\ io[p].write = "ok" => target = preRun[p].target
               /\ io[p].verify_read = "ok" => pc[p] = "Done"
        /\ VerifyFailsOnlyFor(p)

\* C10 (amended): in a run that follows a successful run, the text written is
\* the text read, the written target is the target from before the run with
\* its line endings read as "\n" (so it is unchanged when it holds no
\* carriage return), and verification passes; verification fails on the text
\* it read only for the placeholder or for want of a token= line.
C10_SecondRunNoOpOnText ==
    \A p \in Procs :
        /\ previous[p] = "Done" =>
               /\ pc[p] \in {"p_restore", "Verifying"} => Updated_Content[p] = Config_Content[p]
               /\ io[p].write = "ok" =>
                      /\ target = TextWrite(UniversalNewlines(preRun[p].target))
                      /\ ~Contains(preRun[p].target, CR) => target = preRun[p].target
               /\ io[p].verify_read = "ok" => pc[p] = "Done"
        /\ VerifyFailsOnlyFor(p)

\* C10 witness: a second successful run, with a non-empty secret, that left
\* the target as the first had written it.
C10_Witness ==
    \E p \in Procs :
        /\ previous[p] = "Done"
        /\ pc[p] = "Done"
        /\ Hub_Token[p] \notin {<<>>, NoneValue}
        /\ Updated_Content[p] = preRun[p].target
        /\ target = preRun[p].target

\* The symbols of a line.
Symbols(line) == {line[i] : i \in 1..Len(line)}

\* C11: no line printed by a run contains the value that the run fetched,
\* whichever way the run goes, and the three lines printed when a retrieval
\* path gives up interpolate nothing but the vault name (in the vault URL),
\* the secret name and the secret version.
C11_SecretNeverPrinted ==
    \A p \in Procs :
        \A tag \in console[p] :
            /\ Hub_Token[p] \notin {NoneValue, <<>>} =>
                   ~Contains(LineText(p, tag), Hub_Token[p])
            /\ tag \in DiagnosticLines =>
                   /\ Symbols(LineArgs(p, tag)) \subseteq
                          {Keyvault_Name, Secret_Name, Secret_Version}
                   /\ LineArgs(p, tag) # <<>>

\* C11 witness: the SDK path gave up and printed its diagnostics, the CLI
\* returned a secret, and the run went on to print the lines of the patch and
\* of the verification.
C11_Witness ==
    \E p \in Procs :
        /\ pc[p] = "Done"
        /\ Hub_Token[p] \notin {NoneValue, <<>>}
        /\ DiagnosticLines \cup {"sdk_failed", "retrieved", "backup_created", "token_count"}
               \subseteq console[p]

\* The kinds of failure of the CLI retrieval: non-zero exit, timeout, empty
\* output, and an `az` that can no longer be started.
CliFailureKinds == {"CalledProcessError", "TimeoutExpired", "ValueError", "FileNotFoundError"}

\* C12 (as claimed): when the retrieval has failed on the CLI path (after the
\* SDK path failed, or alone when the SDK is unavailable), whatever the kind
\* of the CLI failure, the process ends with exit code 1 and has printed the
\* vault URL, the secret name and the secret version by then.
C12_DiagnosticsBeforeExit ==
    \A p \in Procs :
        Ended(p) /\ io[p].cli \in CliFailureKinds =>
            /\ exitCode[p] = {1}
            /\ DiagnosticLines \subseteq console[p]

\* C13: the backup is copied over the target at most once in a run, and only
\* after the write of that run raised an I/O error; a failed backup copy, a
\* failed read, a failed verification or a cancellation is followed by no
\* restore, and a run that failed in its verification leaves in the target
\* what its write put there.
C13_RestoreOnlyAfterWriteError ==
    \A p \in Procs :
        /\ calls[p].restore <= 1
        /\ calls[p].restore = 0 <=> io[p].restore = "none"
        /\ io[p].restore # "none" => io[p].write = "OSError"
        /\ \/ io[p].backup \notin {"none", "ok"}
           \/ io[p].read \notin {"none", "ok"}
           \/ io[p].write = "KeyboardInterrupt"
           \/ io[p].verify_read # "none"
           => io[p].restore = "none"
        /\ pc[p] = "Failed" /\ io[p].verify_read # "none" =>
               target = WrittenFile(preRun[p].target, Updated_Content[p])

\* C13 witness: the verification found the placeholder in the file that the
\* write had changed; the run has ended and the changed file is still there.
C13_Witness ==
    \E p \in Procs :
        /\ pc[p] = "Failed"
        /\ "placeholder_found" \in console[p]
        /\ io[p].restore = "none"
        /\ backups[Timestamp[p]] = preRun[p].target
        /\ target # preRun[p].target

\* The run has been through its first lines (preRun is taken there).
Started(p) == pc[p] \notin {"Absent", "Start"}

\* C14: as long as a run has not begun its write step the target holds its
\* content from the start of the run, so a run that ends Failed in the
\* validation, the fetch, the backup copy or the read leaves the target as it
\* was; and a failed backup copy ends the process at once with exit code 1:
\* no read, no write and no restore follow it.
C14_FailureBeforeWriteKeepsTarget ==
    \A p \in Procs :
        /\ Started(p) /\ io[p].write = "none" => target = preRun[p].target
        /\ io[p].backup \notin {"none", "ok"} =>
               /\ pc[p] = "Failed"
               /\ exitCode[p] = {1}
               /\ io[p].read = "none" /\ io[p].write = "none"
               /\ io[p].restore = "none" /\ io[p].verify_read = "none"

\* C14 witness: the backup copy of a file that holds the placeholder failed
\* with an I/O error, leaving a part of a backup file behind; the run has
\* ended and the target is as it was.
C14_Witness ==
    \E p \in Procs :
        /\ pc[p] = "Failed"
        /\ io[p].backup = "OSError"
        /\ backups # preRun[p].backups
        /\ Contains(target, Token_Placeholder)
        /\ target = preRun[p].target

\* The lines of a file on disk that begin with token=, by the position of
\* their first character: a line begins at the start of the file and after
\* each line feed or carriage return.
LinesBeginningWithToken(file) ==
    {i \in 1..Len(file) :
        /\ MatchesAt(file, TokenAssign, i)
        /\ i = 1 \/ file[i - 1] \in {"LF", "CR"}}

\* C15: the verification step ends in Done exactly when the target could be
\* read, the placeholder is nowhere in it and at least one of its lines
\* begins with token=; the count on its last line is then the number of such
\* lines; and the step changes neither the target nor a backup file.
C15_VerifyExact ==
    [][ \A p \in Procs :
            pc[p] = "Verifying" /\ pc'[p] # "Verifying" =>
                /\ target' = target
                /\ backups' = backups
                /\ pc'[p] = "Done" <=>
                       /\ io'[p].verify_read = "ok"
                       /\ ~Contains(target, Token_Placeholder)
                       /\ LinesBeginningWithToken(target) # {}
                /\ pc'[p] = "Done" =>
                       /\ "token_count" \in console'[p]
                       /\ LineArgs(p, "token_count")' =
                              IntText(Cardinality(LinesBeginningWithToken(target))) ]_vars

\* C15 witness: a verification that succeeded on a file of two lines that
\* begin with token=, and reported 2.
C15_Witness ==
    \E p \in Procs :
        /\ pc[p] = "Done"
        /\ io[p].verify_read = "ok"
        /\ Cardinality(LinesBeginningWithToken(target)) = 2
        /\ LineArgs(p, "token_count") = <<"2">>

\* C16 (as claimed): a step that takes a run past its backup copy puts a
\* backup file on disk that was not there before, and no step removes or
\* changes a backup file that is on disk, whatever timestamp suffix the runs
\* compute.
C16_BackupsAccumulate ==
    [][ /\ \A s \in Seconds : backups[s] # NoFile => backups'[s] = backups[s]
        /\ \A p \in Procs :
               pc[p] = "Patching" /\ pc'[p] = "p_read" =>
                   \E s \in Seconds : backups[s] = NoFile /\ backups'[s] # NoFile ]_vars

\* The secret that run p fetched has the placeholder in it, and so had the
\* target when the run started.
PlaceholderInSecret(p) ==
    /\ Hub_Token[p] # NoneValue
    /\ Contains(Hub_Token[p], Token_Placeholder)
    /\ Contains(preRun[p].target, Token_Placeholder)

\* C17: a run whose secret contains the placeholder, on a target that
\* contains the placeholder, is never Done; once its write has succeeded the
\* target holds the substituted text, with the placeholder still in it, and
\* is not restored from the backup; and once the verification has read the
\* file the run is Failed with exit code 1 on "placeholder still found".
C17_PlaceholderInSecretFails ==
    \A p \in Procs :
        PlaceholderInSecret(p) =>
            /\ pc[p] # "Done"
            /\ io[p].write = "ok" =>
                   /\ target = WrittenFile(preRun[p].target,
                                           Substitute(UniversalNewlines(preRun[p].target),
                                                      Hub_Token[p]))
                   /\ Contains(target, Token_Placeholder)
                   /\ io[p].restore = "none"
            /\ io[p].verify_read = "ok" =>
                   /\ pc[p] = "Failed"
                   /\ exitCode[p] = {1}
                   /\ "placeholder_found" \in console[p]

\* C17 witness: such a run has ended in its verification, the target changed
\* and the backup still holding the content from before the run.
C17_Witness ==
    \E p \in Procs :
        /\ PlaceholderInSecret(p)
        /\ pc[p] = "Failed"
        /\ io[p].verify_read = "ok"
        /\ target # preRun[p].target
        /\ backups[Timestamp[p]] = preRun[p].target

\* The external calls of a run.
IoFields == DOMAIN IoNone

\* C18: every run that has started ends, Done or Failed, given that each
\* blocking call returns or raises (the subprocess calls by their timeouts,
\* the SDK call by assumption); and within a run no external call is made a
\* second time and the position never stays on a call that has been made.
C18_Terminates ==
    /\ \A p \in Procs : (pc[p] \notin Free) ~> Ended(p)
    /\ [][ \A p \in Procs : \A f \in IoFields :
               io[p][f] # "none" /\ launched' = launched => io'[p][f] = io[p][f] ]_vars

\* C18 witness: a run in which the SDK call raised and the CLI call ran into
\* its timeout has ended.
C18_Witness ==
    \E p \in Procs :
        /\ pc[p] = "Failed"
        /\ io[p].sdk = "AzureError"
        /\ io[p].cli = "TimeoutExpired"
        /\ exitCode[p] = {1}

\* C19: with two invocations at the same time, no step of one waits for the
\* other (a process that is between two steps can always take the next one),
\* the backup copy stores whatever the target holds at that moment, over any
\* backup file of the same suffix, and the restore puts back whatever the
\* backup file holds at that moment: neither is tied to the content from
\* before the first write.
C19_NoLockRace ==
    /\ [](\A p \in Racers : pc[p] \notin Terminal => ENABLED PatchAndVerify(p))
    /\ [][ \A p \in Racers :
               /\ pc[p] = "Patching" /\ pc'[p] = "p_read" =>
                      backups'[Timestamp'[p]] = target
               /\ pc[p] = "p_restore" /\ io'[p].restore = "ok" =>
                      target' = backups[Timestamp[p]] ]_vars

\* C19 witness: the write of one invocation failed and its restore succeeded,
\* but its backup had been copied after the write of the other invocation
\* (or was written over by the backup copy of the other), so the target is
\* back to the content of the backup and not to the content from before the
\* first write.
C19_Witness ==
    \E p \in Racers :
        /\ pc[p] = "Failed"
        /\ io[p].write = "OSError"
        /\ io[p].restore = "ok"
        /\ target = backups[Timestamp[p]]
        /\ backups[Timestamp[p]] # preRun[p].target
        /\ \A q \in Racers : preRun[q].target = preRun[p].target

\* The same with a backup file of its own for each invocation.
C19_WitnessOwnBackup ==
    /\ C19_Witness
    /\ \A p, q \in Racers : p # q => Timestamp[p] # Timestamp[q]

\* The same with one backup file for both.
C19_WitnessSharedBackup ==
    /\ C19_Witness
    /\ \A p, q \in Racers : Timestamp[p] = Timestamp[q] /\ io[q].backup = "ok"
====
